---- MODULE Spec2Model ----
(***************************************************************************)
(* Model of src/main.py, the Indeed CSV Downloader actor: the retry loop   *)
(* of main_logic, the session restore / probe / login steps, the resource  *)
(* acquisition pipeline (process_urls, download_csv and its three          *)
(* strategies) and the delivery stage (key-value upload, webhook POST).    *)
(*                                                                         *)
(* The browser, the key-value store, the HTTP endpoints and the page DOM   *)
(* are the environment: every call into them picks its outcome (returns,   *)
(* raises, which elements exist, which bytes come back) with \E.           *)
(* Actor.push_data and Actor.log are taken to return normally.             *)
(***************************************************************************)
EXTENDS Integers, Sequences, FiniteSets, TLC

(***************************************************************************)
(* Bounds of the model.                                                    *)
(***************************************************************************)
MaxRetries == 3     \* largest max_retries an input supplies
MaxPages == 2       \* longest start_urls list an input supplies
MaxLinks == 2       \* most anchors a page shows to scan_for_csv_links
MaxSelectors == 2   \* longest selector list handed to try_fill / try_click

(***************************************************************************)
(* Program constants.                                                      *)
(***************************************************************************)
MinPayload == 50        \* len(content) > 50 in scan_for_csv_links
BackoffUnit == 5        \* wait = 5 * attempt
DefaultMaxRetries == 2  \* input_data.get('max_retries', 2)
NumTexts == 5           \* len(CONFIG['DOWNLOAD_BUTTON_TEXTS'])
NumSelectors == 10      \* len(selector_candidates)

COOKIES_KEY == "indeed_cookies_v1"
KV_FILENAME_KEY == "indeed_output_filename"
DefaultFilename == "indeed-output.csv"

None == "None"

(***************************************************************************)
(* Inputs.  A URL or file name is kept as the sequence of its pieces, so   *)
(* that lower(), endswith() and strip() are computed, not assumed.         *)
(***************************************************************************)
Lower(piece) ==
    CASE piece = ".CSV" -> ".csv"
      [] piece = ".Csv" -> ".csv"
      [] OTHER -> piece

\* str.lower().endswith('.csv')
EndsWithCsv(url) == Len(url) > 0 /\ Lower(url[Len(url)]) = ".csv"

RECURSIVE LStrip(_)
LStrip(s) == IF Len(s) > 0 /\ Head(s) = " " THEN LStrip(Tail(s)) ELSE s

RECURSIVE RStrip(_)
RStrip(s) ==
    IF Len(s) > 0 /\ s[Len(s)] = " " THEN RStrip(SubSeq(s, 1, Len(s) - 1)) ELSE s

\* str.strip()
Strip(s) == RStrip(LStrip(s))

\* Truthiness of a Python str kept whole, and of one kept as its pieces
Truthy(s) == s /= ""
TruthyUrl(url) == url /= <<>>

\* An input_data entry is the set of its values: empty when the key is absent.
Absent == {}
Given(S) == {Absent} \cup {{v} : v \in S}

Usernames == {"", "user"}
Passwords == {"", "secret"}
WebhookInputs == Given({<<" ">>, <<"https://hook">>, <<" ", "https://hook", " ">>})
FilenameInputs == Given({COOKIES_KEY})
RetryInputs == Given(-1 .. MaxRetries)
StartUrlInputs == {[i \in 1 .. n |-> i] : n \in 0 .. MaxPages}
CsvUrls == {<<>>, <<"https://x/report", ".CSV">>, <<"https://x/report", ".html">>}

InputData ==
    [indeed_username : Usernames, indeed_password : Passwords,
     n8n_webhook_url : WebhookInputs, save_cookies : BOOLEAN,
     download_filename : FilenameInputs, max_retries : RetryInputs,
     start_urls : StartUrlInputs]

\* dict.get(key, default)
Get(value, default) == IF value = Absent THEN default ELSE CHOOSE v \in value : TRUE

\* The config dict as it would be if main_logic took the first start URL
\* as the resource URL of the direct fetch
MakeConfigWithCsvUrl(input) ==
    [start_urls |-> input.start_urls,
     username |-> input.indeed_username,
     password |-> input.indeed_password,
     n8n_webhook_url |-> Strip(Get(input.n8n_webhook_url, <<>>)),
     save_cookies |-> input.save_cookies,
     download_filename |-> Get(input.download_filename, DefaultFilename),
     max_retries |-> Get(input.max_retries, DefaultMaxRetries),
     csv_download_url |-> IF Len(input.start_urls) > 0
                          THEN <<"https://x/report", ".csv">> ELSE <<>>]
\* The config dict of main_logic.  It has no 'csv_download_url' key:
\* csv_download_url holds what config.get('csv_download_url', '') returns.
MakeConfig(input) ==
    [start_urls |-> input.start_urls,
     username |-> input.indeed_username,
     password |-> input.indeed_password,
     n8n_webhook_url |-> Strip(Get(input.n8n_webhook_url, <<>>)),
     save_cookies |-> input.save_cookies,
     download_filename |-> Get(input.download_filename, DefaultFilename),
     max_retries |-> Get(input.max_retries, DefaultMaxRetries),
     csv_download_url |-> <<>>]

VARIABLES
    config,            \* the config dict of the run
    cascade,           \* a call of try_fill / try_click taken on its own
    pc,                \* position of the run in main_logic and its callees
    attempt,           \* loop variable of the retry loop (0 before the loop)
    e,                 \* exception bound by `except Exception as e`
    firstError,        \* exception raised by the first failed attempt
    failures,          \* attempts that ended with an exception
    sleeps,            \* durations passed to asyncio.sleep by the retry loop
    dataset,           \* records pushed with Actor.push_data, in order
    outcome,           \* "running", "returned" or "raised"
    browser,           \* "none", "open" or "closed": this attempt's session
    networkUsed,       \* the run called the browser, the store or HTTP
    kv,                \* key-value store: key -> kind of value stored
    kvWriters,         \* <<key, component>> of every set_value that succeeded
    logged_in,         \* local logged_in of the attempt
    probed,            \* what the probe of this attempt met on the page
    loginState,        \* progress of perform_login in this attempt
    steps,             \* steps this attempt has gone through, in order
    pageIdx,           \* index in start_urls of the page process_urls is on
    visited,           \* pages process_urls navigated to, in order
    navOk,             \* pages whose page.goto returned in process_urls
    tried,             \* strategies evaluated: [page, strategy, ok], in order
    trgIdx,            \* download trigger download_csv_via_click is on
    pending,           \* a download started by an earlier click is in flight
    links,             \* per anchor scan_for_csv_links went through: was it a
                       \* 200 response of more than MinPayload bytes
    lastLink,          \* the anchor scan_for_csv_links handled last
    download_info,     \* download_info of download_csv_via_click: None, or
                       \* whose download it holds ("own" click, "earlier" click)
    out_path,          \* result of process_urls: None or "path"
    tmpFile,           \* the file at /tmp/<download_filename>
    artifact,          \* strategy the returned artifact came from
    kv_upload_success, \* local kv_upload_success
    webhook_sent,      \* local webhook_sent
    posts,             \* webhook POSTs attempted in the run
    uploads            \* calls of upload_to_kv_store in the run

vars ==
    <<config, cascade, pc, attempt, e, firstError, failures, sleeps, dataset, outcome,
      browser, networkUsed, kv, kvWriters, logged_in, probed, loginState, steps,
      pageIdx,
      visited, navOk, tried, trgIdx, pending, links, lastLink, download_info,
      out_path, tmpFile, artifact, kv_upload_success, webhook_sent, posts,
      uploads>>

runVars == <<config, cascade, attempt, e, firstError, failures, sleeps, dataset, outcome>>
browserVars == <<browser>>
kvVars == <<kv, kvWriters>>
loginVars == <<logged_in, probed, loginState>>
pipeVars == <<pageIdx, visited, navOk, tried, trgIdx, pending, links, lastLink,
              download_info, out_path, tmpFile, artifact>>
deliveryVars == <<kv_upload_success, webhook_sent, posts, uploads>>


(***************************************************************************)
(* Initial state: main_logic has read its input and built config.          *)
(***************************************************************************)
KvKeys == {COOKIES_KEY, KV_FILENAME_KEY, DefaultFilename}

\* The store as earlier runs left it: cookies may or may not be there.
InitialStores ==
    {[k \in KvKeys |-> IF k = COOKIES_KEY THEN c ELSE None] : c \in {None, "cookies"}}

NoFile == [exists |-> FALSE, size |-> 0]
NoLink == [kind |-> None, size |-> 0]
\* No call of the cascade is under way
NoCascade ==
    [fn |-> None, selectors |-> <<>>, i |-> 0, queried |-> <<>>, acted |-> <<>>,
     result |-> None, at |-> "idle"]

NoLogin ==
    [result |-> None, user |-> None, pass |-> None, submit |-> None, settle |-> None]

\* check_login_status has not run on the page the attempt is on
NoProbe == [ran |-> FALSE, present |-> {}, raised |-> FALSE, authenticated |-> FALSE]

InitLocals ==
    /\ pc = "validate"
    /\ attempt = 0
    /\ e = None
    /\ firstError = None
    /\ failures = 0
    /\ sleeps = <<>>
    /\ dataset = <<>>
    /\ outcome = "running"
    /\ browser = "none"
    /\ networkUsed = FALSE
    /\ kv \in InitialStores
    /\ kvWriters = {}
    /\ logged_in = FALSE
    /\ probed = NoProbe
    /\ loginState = NoLogin
    /\ steps = <<>>
    /\ pageIdx = 0
    /\ visited = <<>>
    /\ navOk = {}
    /\ tried = <<>>
    /\ trgIdx = 0
    /\ pending = FALSE
    /\ links = <<>>
    /\ lastLink = NoLink
    /\ download_info = None
    /\ out_path = None
    /\ tmpFile = NoFile
    /\ artifact = None
    /\ kv_upload_success = FALSE
    /\ webhook_sent = FALSE
    /\ posts = 0
    /\ uploads = 0

Init ==
    /\ config \in {MakeConfig(input) : input \in InputData}
    /\ cascade = NoCascade
    /\ InitLocals

\* Runs with a config that may also carry a 'csv_download_url' entry, as
\* process_urls and download_csv accept it; the inputs that do not reach the
\* pipeline (credentials, webhook, cookies, file name) are left at one value.
DirectInputs ==
    {input \in InputData :
        /\ input.indeed_username = "user" /\ input.indeed_password = "secret"
        /\ input.n8n_webhook_url = Absent /\ input.download_filename = Absent
        /\ input.save_cookies}

InitDirect ==
    /\ config \in {[MakeConfig(input) EXCEPT !.csv_download_url = url] :
                      input \in DirectInputs, url \in CsvUrls}
    /\ cascade = NoCascade
    /\ InitLocals

(***************************************************************************)
(* main_logic: validation, the retry loop, the except handler.             *)
(***************************************************************************)
\* not config['username'] or not config['password']
MissingCredentialsAnd(cfg) == ~Truthy(cfg.username) /\ ~Truthy(cfg.password)
MissingCredentials(cfg) == ~Truthy(cfg.username) \/ ~Truthy(cfg.password)

MissingCredentialsRecord == [status |-> "Failed", error |-> "Missing credentials"]

\* the output dict of the except handler; str(e) is the message of e
FailedRecord(err) == [status |-> "Failed", error |-> err]

\* the output dict of the success path
SuccessRecord(cfg, file, sent) ==
    [status |-> "Success",
     csv_filename |-> cfg.download_filename,
     file_size |-> IF file.exists THEN file.size ELSE -1,
     cookies_saved |-> cfg.save_cookies,
     webhook_sent |-> sent]

\* The loop head as it would be if the body always ran once
RangeHasNextOrFirst(current, max_retries) == current = 0 \/ current + 1 < max_retries + 1
\* attempt in range(1, max_retries + 1): is there a next value
RangeHasNext(current, max_retries) == current + 1 < max_retries + 1

\* attempt < config['max_retries']
ShouldRetry(current, max_retries) == current < max_retries

\* wait = 5 * attempt
BackoffWaitNext(current) == BackoffUnit * (current + 1)
BackoffWait(current) == BackoffUnit * current

\* Raise as it would be if the browser were not launched under `async with`
RaiseLeavesBrowser(err) ==
    /\ pc' = "except"
    /\ e' = err
    /\ firstError' = IF failures = 0 THEN err ELSE firstError
    /\ failures' = failures + 1
    /\ browser' = browser
    /\ UNCHANGED <<config, cascade, attempt, sleeps, dataset, outcome>>
\* An exception leaves the attempt's try block: `async with async_playwright()`
\* exits first, which ends the browser session, then the handler binds e.
Raise(err) ==
    /\ pc' = "except"
    /\ e' = err
    /\ firstError' = IF failures = 0 THEN err ELSE firstError
    /\ failures' = failures + 1
    /\ browser' = IF browser = "open" THEN "closed" ELSE browser
    /\ UNCHANGED <<config, cascade, attempt, sleeps, dataset, outcome>>

Validate ==
    /\ pc = "validate"
    /\ IF MissingCredentials(config)
       THEN /\ dataset' = Append(dataset, MissingCredentialsRecord)
            /\ outcome' = "returned"
            /\ pc' = "done"
       ELSE /\ pc' = "loop"
            /\ UNCHANGED <<dataset, outcome>>
    /\ UNCHANGED <<config, cascade, attempt, e, firstError, failures, sleeps>>
    /\ UNCHANGED <<browserVars, networkUsed, kvVars, loginVars, pipeVars, deliveryVars, steps>>

\* The for statement: bind the next attempt number, or fall off the loop, in
\* which case main_logic returns.  The locals of the body start afresh.
LoopNext ==
    /\ pc = "loop"
    /\ IF RangeHasNext(attempt, config.max_retries)
       THEN /\ attempt' = attempt + 1
            /\ pc' = "launch"
            /\ outcome' = outcome
       ELSE /\ outcome' = "returned"
            /\ pc' = "done"
            /\ attempt' = attempt
    /\ browser' = "none"
    /\ logged_in' = FALSE
    /\ probed' = NoProbe
    /\ loginState' = NoLogin
    /\ steps' = <<>>
    /\ pageIdx' = 0 /\ visited' = <<>> /\ navOk' = {} /\ tried' = <<>>
    /\ trgIdx' = 0 /\ pending' = FALSE /\ links' = <<>> /\ lastLink' = NoLink
    /\ download_info' = None /\ out_path' = None
    /\ e' = None      \* the name e is unbound once the except block is left
    /\ UNCHANGED <<config, cascade, firstError, failures, sleeps, dataset, networkUsed>>
    /\ UNCHANGED <<kvVars, tmpFile, artifact, deliveryVars>>

\* p.chromium.launch and browser.new_context
LaunchBrowser ==
    /\ pc = "launch"
    /\ networkUsed' = TRUE
    /\ \/ /\ browser' = "open"
          /\ steps' = Append(steps, "launch")
          /\ pc' = "load_cookies"
          /\ UNCHANGED runVars
       \/ /\ Raise("BrowserError")
          /\ UNCHANGED steps
    /\ UNCHANGED <<kvVars, loginVars, pipeVars, deliveryVars>>

\* load_cookies_into_context: get_value may raise or find nothing, add_cookies
\* may raise; every outcome is swallowed and the result is not used.
LoadCookies ==
    /\ pc = "load_cookies"
    /\ networkUsed' = TRUE
    /\ steps' = Append(steps, "restore")
    /\ pc' = "new_page"
    /\ UNCHANGED <<runVars, browserVars, kvVars, loginVars, pipeVars, deliveryVars>>

\* context.new_page
NewPage ==
    /\ pc = "new_page"
    /\ \/ /\ pc' = "probe"
          /\ UNCHANGED <<runVars, browserVars>>
       \/ /\ Raise("BrowserError")
    /\ UNCHANGED <<networkUsed, kvVars, loginVars, pipeVars, deliveryVars, steps>>

\* check_login_status: the three markers Download, Export, Export CSV
Markers == {"Download", "Export", "Export CSV"}

\* check_login_status as it would be if it asked for every marker
CheckLoginStatusAll(present, raises) == ~raises /\ present = Markers
\* The three query_selector calls come first, inside the try: if one raises
\* the result is False whatever the others found
CheckLoginStatus(present, raises) == ~raises /\ present /= {}

\* Visit start_urls[0] and probe it
Probe ==
    /\ pc = "probe"
    /\ IF Len(config.start_urls) > 0
       THEN /\ networkUsed' = TRUE
            /\ \/ /\ logged_in' = FALSE    \* page.goto raised
                  /\ probed' = NoProbe
               \/ \E present \in SUBSET Markers, raises \in BOOLEAN, auth \in BOOLEAN :
                      /\ logged_in' = CheckLoginStatus(present, raises)
                      /\ probed' = [ran |-> TRUE, present |-> present, raised |-> raises,
                                    authenticated |-> auth]
       ELSE /\ logged_in' = FALSE
            /\ probed' = NoProbe
            /\ UNCHANGED networkUsed
    /\ steps' = Append(steps, "probe")
    /\ pc' = IF logged_in' THEN "process_urls" ELSE "login_nav"
    /\ UNCHANGED <<runVars, browserVars, kvVars, loginState, pipeVars, deliveryVars>>



(***************************************************************************)
(* try_fill / try_click: the selector cascade.  A selector's outcome on    *)
(* the page is "absent" (query_selector returns None), "query_raises",     *)
(* "action_raises" (the element exists, fill/click raises) or "ok".        *)
(***************************************************************************)
StrategyOutcomes == {"absent", "query_raises", "action_raises", "ok"}
SelectorOutcomes == [1 .. MaxSelectors -> StrategyOutcomes]

\* Index of the selector the cascade acts through, 0 when it returns False
RECURSIVE TryCascadeFrom(_, _)
TryCascadeFrom(outs, i) ==
    IF i > Len(outs) THEN 0
    ELSE IF outs[i] = "ok" THEN i
    ELSE TryCascadeFrom(outs, i + 1)

try_fill(outs) == TryCascadeFrom(outs, 1)
try_click(outs) == TryCascadeFrom(outs, 1)

\* How a login step got done: by the cascade, by its fallback, or not at all
StepDone(selected, fallbackOk) ==
    IF selected > 0 THEN "cascade" ELSE IF fallbackOk THEN "fallback" ELSE "failed"

(***************************************************************************)
(* The cascade step by step: `for selector in selectors`, query_selector   *)
(* and the action inside one try, `except Exception: continue`.            *)
(* cascade.selectors is what each selector of the list does on the page,   *)
(* cascade.queried / cascade.acted the selectors query_selector and        *)
(* fill / click were called with, in order.                                *)
(***************************************************************************)
SelectorLists ==
    UNION {[1 .. n -> StrategyOutcomes] : n \in 0 .. MaxSelectors}

\* if element:
ElementFound(found) == found \in {"action_raises", "ok"}

CascadeCall(fn, selectors) ==
    [fn |-> fn, selectors |-> selectors, i |-> 1, queried |-> <<>>, acted |-> <<>>,
     result |-> None, at |-> "query"]

\* `except Exception: continue`, or `if element` was false: the next selector
CascadeContinue(c) == [c EXCEPT !.i = c.i + 1, !.at = "query"]

\* The loop head and query_selector as they would be without the try/except
CascadeQueryUncaught ==
    /\ cascade.at = "query"
    /\ IF cascade.i > Len(cascade.selectors)
       THEN cascade' = [cascade EXCEPT !.result = "False", !.at = "done"]
       ELSE LET c == [cascade EXCEPT !.queried = Append(cascade.queried, cascade.i)]
                found == cascade.selectors[cascade.i]
            IN  cascade' = IF found = "query_raises"
                           THEN [c EXCEPT !.result = "raised", !.at = "done"]
                           ELSE IF ElementFound(found)
                           THEN [c EXCEPT !.at = "act"]
                           ELSE CascadeContinue(c)
    /\ UNCHANGED <<config, pc, attempt, e, firstError, failures, sleeps, dataset, outcome>>
    /\ UNCHANGED <<browserVars, networkUsed, kvVars, loginVars, pipeVars, deliveryVars, steps>>
\* The loop head: the next selector and its query_selector, or `return False`
CascadeQuery ==
    /\ cascade.at = "query"
    /\ IF cascade.i > Len(cascade.selectors)
       THEN cascade' = [cascade EXCEPT !.result = "False", !.at = "done"]
       ELSE LET c == [cascade EXCEPT !.queried = Append(cascade.queried, cascade.i)]
                found == cascade.selectors[cascade.i]
            IN  cascade' = IF found = "query_raises"
                           THEN CascadeContinue(c)
                           ELSE IF ElementFound(found)
                           THEN [c EXCEPT !.at = "act"]
                           ELSE CascadeContinue(c)
    /\ UNCHANGED <<config, pc, attempt, e, firstError, failures, sleeps, dataset, outcome>>
    /\ UNCHANGED <<browserVars, networkUsed, kvVars, loginVars, pipeVars, deliveryVars, steps>>

\* page.fill / page.click as it would be if a successful action did not return
CascadeActNoReturn ==
    /\ cascade.at = "act"
    /\ cascade' = CascadeContinue([cascade EXCEPT !.acted = Append(cascade.acted, cascade.i)])
    /\ UNCHANGED <<config, pc, attempt, e, firstError, failures, sleeps, dataset, outcome>>
    /\ UNCHANGED <<browserVars, networkUsed, kvVars, loginVars, pipeVars, deliveryVars, steps>>
\* page.fill / page.click on the selector whose element was found, `return True`
CascadeAct ==
    /\ cascade.at = "act"
    /\ LET c == [cascade EXCEPT !.acted = Append(cascade.acted, cascade.i)]
       IN  cascade' = IF cascade.selectors[cascade.i] = "ok"
                      THEN [c EXCEPT !.result = "True", !.at = "done"]
                      ELSE CascadeContinue(c)
    /\ UNCHANGED <<config, pc, attempt, e, firstError, failures, sleeps, dataset, outcome>>
    /\ UNCHANGED <<browserVars, networkUsed, kvVars, loginVars, pipeVars, deliveryVars, steps>>

(***************************************************************************)
(* perform_login                                                           *)
(***************************************************************************)
LoginNav ==
    /\ pc = "login_nav"
    /\ networkUsed' = TRUE
    /\ probed' = NoProbe
    /\ steps' = Append(steps, "login")
    /\ \/ /\ pc' = "login_user"
          /\ UNCHANGED loginState
       \/ /\ loginState' = [loginState EXCEPT !.result = "failed"]   \* goto raised
          /\ pc' = "login_return"
    /\ UNCHANGED <<runVars, browserVars, kvVars, logged_in, pipeVars, deliveryVars>>

\* perform_login as it would be if a failed username fill ended the flow
LoginFillUserAborts ==
    /\ pc = "login_user"
    /\ \E outs \in SelectorOutcomes, fallbackOk \in BOOLEAN :
           LET done == StepDone(try_fill(outs), fallbackOk)
           IN  /\ loginState' = [loginState EXCEPT !.user = done,
                                     !.result = IF done = "failed" THEN "failed" ELSE None]
               /\ pc' = IF done = "failed" THEN "login_return" ELSE "login_pass"
    /\ UNCHANGED <<runVars, browserVars, networkUsed, kvVars, logged_in, probed, pipeVars,
                   deliveryVars, steps>>
\* try_fill over USERNAME_SELECTORS, then page.fill('input', ...) in a try
LoginFillUser ==
    /\ pc = "login_user"
    /\ \E outs \in SelectorOutcomes, fallbackOk \in BOOLEAN :
           loginState' = [loginState EXCEPT !.user = StepDone(try_fill(outs), fallbackOk)]
    /\ pc' = "login_pass"
    /\ UNCHANGED <<runVars, browserVars, networkUsed, kvVars, logged_in, probed, pipeVars,
                   deliveryVars, steps>>

\* try_fill over PASSWORD_SELECTORS, then inputs[0].fill(...) in a try
LoginFillPass ==
    /\ pc = "login_pass"
    /\ \E outs \in SelectorOutcomes, fallbackOk \in BOOLEAN :
           loginState' = [loginState EXCEPT !.pass = StepDone(try_fill(outs), fallbackOk)]
    /\ pc' = "login_submit"
    /\ UNCHANGED <<runVars, browserVars, networkUsed, kvVars, logged_in, probed, pipeVars,
                   deliveryVars, steps>>

\* try_click over LOGIN_BUTTON_SELECTORS, then page.click('text="Sign in"') in a try
LoginSubmit ==
    /\ pc = "login_submit"
    /\ \E outs \in SelectorOutcomes, fallbackOk \in BOOLEAN :
           loginState' = [loginState EXCEPT !.submit = StepDone(try_click(outs), fallbackOk)]
    /\ pc' = "login_settle"
    /\ UNCHANGED <<runVars, browserVars, networkUsed, kvVars, logged_in, probed, pipeVars,
                   deliveryVars, steps>>

\* wait_for_load_state in a try: a timeout is swallowed; return True
LoginSettle ==
    /\ pc = "login_settle"
    /\ \E settled \in {"idle", "timeout"} :
           loginState' = [loginState EXCEPT !.settle = settled, !.result = "ok"]
    /\ pc' = "login_return"
    /\ UNCHANGED <<runVars, browserVars, networkUsed, kvVars, logged_in, probed, pipeVars,
                   deliveryVars, steps>>

\* main_logic as it would be if it did not test the result of perform_login
LoginReturnIgnoresFailure ==
    /\ pc = "login_return"
    /\ pc' = IF config.save_cookies THEN "save_cookies" ELSE "process_urls"
    /\ UNCHANGED <<runVars, browserVars>>
    /\ loginState' = [NoLogin EXCEPT !.result = loginState.result]
    /\ UNCHANGED <<networkUsed, kvVars, logged_in, probed, pipeVars, deliveryVars, steps>>
\* main_logic after perform_login returned
LoginReturn ==
    /\ pc = "login_return"
    /\ IF loginState.result = "failed"
       THEN Raise("Login failed")
       ELSE /\ pc' = IF config.save_cookies THEN "save_cookies" ELSE "process_urls"
            /\ UNCHANGED <<runVars, browserVars>>
    /\ loginState' = [NoLogin EXCEPT !.result = loginState.result]
    /\ UNCHANGED <<networkUsed, kvVars, logged_in, probed, pipeVars, deliveryVars, steps>>

\* save_cookies_from_context: context.cookies or set_value may raise (swallowed)
SaveCookies ==
    /\ pc = "save_cookies"
    /\ \/ /\ kv' = [kv EXCEPT ![COOKIES_KEY] = "cookies"]
          /\ kvWriters' = kvWriters \cup {<<COOKIES_KEY, "session_manager">>}
       \/ UNCHANGED kvVars
    /\ networkUsed' = TRUE
    /\ steps' = Append(steps, "persist")
    /\ pc' = "process_urls"
    /\ UNCHANGED <<runVars, browserVars, loginVars, pipeVars, deliveryVars>>


(***************************************************************************)
(* process_urls and download_csv                                           *)
(***************************************************************************)
Sizes == {0, MinPayload, MinPayload + 1}   \* byte lengths a payload can have

\* Where download_csv goes after a strategy returned: `if result: return result`
AfterStrategyNoReturn(strategy, ok) ==
    CASE strategy = "direct" -> "click"
      [] strategy = "click" -> "scan"
      [] OTHER -> "process_urls"
AfterStrategy(strategy, ok) ==
    IF ok THEN "pipeline_return"
    ELSE CASE strategy = "direct" -> "click"
           [] strategy = "click" -> "scan"
           [] OTHER -> "process_urls"

\* A strategy wrote the file at out_path and returned it
Acquire(strategy, size) ==
    /\ tmpFile' = [exists |-> TRUE, size |-> size]
    /\ artifact' = strategy
    /\ out_path' = "path"
    /\ tried' = Append(tried, [page |-> pageIdx, strategy |-> strategy, ok |-> TRUE])
    /\ pc' = AfterStrategy(strategy, TRUE)

\* A strategy returned None
GiveUp(strategy) ==
    /\ tried' = Append(tried, [page |-> pageIdx, strategy |-> strategy, ok |-> FALSE])
    /\ pc' = AfterStrategy(strategy, FALSE)
    /\ UNCHANGED <<tmpFile, artifact, out_path>>

\* The for loop of process_urls: page.goto in the per-page try, or return None
ProcessUrlsNextUncaught ==
    /\ pc = "process_urls"
    /\ IF pageIdx < Len(config.start_urls)
       THEN /\ pageIdx' = pageIdx + 1
            /\ visited' = Append(visited, config.start_urls[pageIdx + 1])
            /\ networkUsed' = TRUE
            /\ \/ /\ navOk' = navOk \cup {pageIdx + 1}
                  /\ pc' = "direct"
                  /\ UNCHANGED <<runVars, browserVars>>
               \/ /\ Raise("BrowserError")
                  /\ UNCHANGED navOk
       ELSE /\ pc' = "pipeline_return"
            /\ UNCHANGED <<pageIdx, visited, navOk, networkUsed, runVars, browserVars>>
    /\ probed' = NoProbe
    /\ steps' = IF pageIdx = 0 THEN Append(steps, "acquire") ELSE steps
    /\ links' = <<>> /\ lastLink' = NoLink
    /\ trgIdx' = 0 /\ download_info' = None
    /\ UNCHANGED <<tried, pending, out_path, tmpFile, artifact>>
    /\ UNCHANGED <<kvVars, logged_in, loginState, deliveryVars>>
ProcessUrlsNext ==
    /\ pc = "process_urls"
    /\ IF pageIdx < Len(config.start_urls)
       THEN /\ pageIdx' = pageIdx + 1
            /\ visited' = Append(visited, config.start_urls[pageIdx + 1])
            /\ networkUsed' = TRUE
            /\ \/ /\ navOk' = navOk \cup {pageIdx + 1}
                  /\ pc' = "direct"
               \/ /\ pc' = "process_urls"    \* goto raised: logged, next page
                  /\ UNCHANGED navOk
       ELSE /\ pc' = "pipeline_return"
            /\ UNCHANGED <<pageIdx, visited, navOk, networkUsed>>
    /\ probed' = NoProbe
    /\ steps' = IF pageIdx = 0 THEN Append(steps, "acquire") ELSE steps
    /\ links' = <<>> /\ lastLink' = NoLink
    /\ trgIdx' = 0 /\ download_info' = None
    /\ UNCHANGED <<tried, pending, out_path, tmpFile, artifact>>
    /\ UNCHANGED <<runVars, browserVars, kvVars, logged_in, loginState, deliveryVars>>

\* direct_download_by_url, behind the guard of download_csv: a GET of
\* csv_download_url; status 200 writes the content whatever its length
DirectFetch ==
    /\ pc = "direct"
    /\ IF EndsWithCsv(config.csv_download_url)
       THEN /\ networkUsed' = TRUE
            /\ \/ GiveUp("direct")                     \* GET raised, or status /= 200
               \/ \E size \in Sizes : Acquire("direct", size)
       ELSE /\ pc' = "click"
            /\ UNCHANGED <<networkUsed, tried, tmpFile, artifact, out_path>>
    /\ UNCHANGED <<pageIdx, visited, navOk, trgIdx, pending, links, lastLink,
                   download_info>>
    /\ UNCHANGED <<runVars, browserVars, kvVars, loginVars, deliveryVars, steps>>

NumTriggers == NumTexts + NumSelectors

\* What download_info can hold after the sleep, given which downloads fired
Fired(own, earlier) ==
    IF ~own /\ ~earlier THEN {None}
    ELSE {d \in {"own", "earlier"} : (d = "own" => own) /\ (d = "earlier" => earlier)}

\* One iteration of the two trigger loops of download_csv_via_click (texts
\* first, then selectors).  All handlers registered with page.on('download')
\* stay registered and write the one download_info variable of the call, which
\* every iteration that finds its element sets to None before it clicks: the
\* model keeps it None while no iteration returns.
ClickTrigger ==
    /\ pc = "click"
    /\ trgIdx < NumTriggers
    /\ trgIdx' = trgIdx + 1
    /\ \/ /\ pc' = "click"        \* query_selector raised or found nothing
          /\ UNCHANGED <<pending, download_info, tried, tmpFile, artifact, out_path>>
       \/ /\ pending' \in {pending, TRUE}   \* click raised; it may have started a download
          /\ pc' = "click"
          /\ UNCHANGED <<download_info, tried, tmpFile, artifact, out_path>>
       \/ \* click returned, sleep(5): `own` is what this click's download did,
          \* `earlier` whether a download still in flight from an earlier click
          \* fired during the sleep; the handler keeps the one that fired last
          \E own \in {"none", "intime", "late"}, earlier \in {b \in BOOLEAN : b => pending} :
              /\ pending' = ((pending /\ ~earlier) \/ own = "late")
              /\ \E fired \in Fired(own = "intime", earlier) :
                    IF fired /= None
                    THEN \/ /\ pc' = "click"     \* save_as raised
                            /\ UNCHANGED <<download_info, tried, tmpFile, artifact, out_path>>
                         \/ /\ download_info' = fired
                            /\ \E size \in Sizes : Acquire("click", size)
                    ELSE /\ pc' = "click"
                         /\ UNCHANGED <<download_info, tried, tmpFile, artifact, out_path>>
    /\ UNCHANGED <<pageIdx, visited, navOk, links, lastLink>>
    /\ UNCHANGED <<runVars, browserVars, networkUsed, kvVars, loginVars, deliveryVars, steps>>

\* Both trigger loops are over: return None.  Nothing listens to the page's
\* downloads until the next call.
ClickExhausted ==
    /\ pc = "click"
    /\ trgIdx = NumTriggers
    /\ GiveUp("click")
    /\ pending' = FALSE
    /\ UNCHANGED <<pageIdx, visited, navOk, trgIdx, links, lastLink, download_info>>
    /\ UNCHANGED <<runVars, browserVars, networkUsed, kvVars, loginVars, deliveryVars, steps>>

\* An anchor as scan_for_csv_links meets it
LinkKinds ==
    {[kind |-> k, size |-> 0] : k \in {"attr_raises", "no_csv", "get_raises", "non200"}}
      \cup {[kind |-> "ok200", size |-> n] : n \in Sizes}

\* len(content) > 50
AcceptPayloadAtLeast(size) == size >= MinPayload
AcceptPayload(size) == size > MinPayload

\* What the loop of scan_for_csv_links does with one anchor
LinkStep(link) ==
    IF link.kind \in {"attr_raises", "get_raises"} THEN "abort"
    ELSE IF link.kind = "ok200" /\ AcceptPayload(link.size) THEN "accept"
    ELSE "next"

\* Did the GET of this anchor return 200 with more than MinPayload bytes
Qualifies(link) == link.kind = "ok200" /\ link.size > MinPayload

\* scan_for_csv_links, one anchor at a time, in document order
ScanLinks ==
    /\ pc = "scan"
    /\ \/ /\ GiveUp("scan")       \* query_selector_all raised, or no anchor is left
          /\ lastLink' = NoLink
          /\ UNCHANGED <<links, networkUsed>>
       \/ /\ Len(links) < MaxLinks
          /\ \E link \in LinkKinds :
                /\ links' = Append(links, Qualifies(link))
                /\ lastLink' = link
                /\ networkUsed' = TRUE
                /\ CASE LinkStep(link) = "abort" -> GiveUp("scan")
                     [] LinkStep(link) = "accept" -> Acquire("scan", link.size)
                     [] OTHER -> /\ pc' = "scan"
                                 /\ UNCHANGED <<tried, tmpFile, artifact, out_path>>
    /\ UNCHANGED <<pageIdx, visited, navOk, trgIdx, pending, download_info>>
    /\ UNCHANGED <<runVars, browserVars, kvVars, loginVars, deliveryVars, steps>>

\* main_logic after process_urls returned; the locals of process_urls and
\* of its callees are gone
ProcessUrlsReturn ==
    /\ pc = "pipeline_return"
    /\ IF out_path = None
       THEN Raise("Unable to find or download CSV")
       ELSE /\ pc' = "upload"
            /\ UNCHANGED <<runVars, browserVars>>
    /\ pageIdx' = 0 /\ visited' = <<>> /\ navOk' = {} /\ tried' = <<>>
    /\ trgIdx' = 0 /\ pending' = FALSE /\ links' = <<>> /\ lastLink' = NoLink
    /\ download_info' = None
    /\ UNCHANGED <<out_path, tmpFile, artifact>>
    /\ UNCHANGED <<networkUsed, kvVars, loginVars, deliveryVars, steps>>


(***************************************************************************)
(* Delivery: upload_to_kv_store, post_file_to_webhook, the success record  *)
(***************************************************************************)
UploadOutcomes == {"open_raises", "first_raises", "second_raises", "ok"}

\* The store after upload_to_kv_store: set_value(filename, content), then
\* set_value(KV_FILENAME_KEY, filename); the first to raise ends the call.
StoreAfterUpload(store, filename, result) ==
    CASE result \in {"open_raises", "first_raises"} -> store
      [] result = "second_raises" -> [store EXCEPT ![filename] = "csv"]
      [] OTHER -> [[store EXCEPT ![filename] = "csv"] EXCEPT ![KV_FILENAME_KEY] = "filename"]

WritersAfterUpload(writers, filename, result) ==
    CASE result \in {"open_raises", "first_raises"} -> writers
      [] result = "second_raises" -> writers \cup {<<filename, "delivery">>}
      [] OTHER -> writers \cup {<<filename, "delivery">>, <<KV_FILENAME_KEY, "delivery">>}

\* upload_to_kv_store as it would be without its try/except
UploadToKvStoreUncaught ==
    /\ pc = "upload"
    /\ uploads' = uploads + 1
    /\ steps' = Append(steps, "store")
    /\ \E result \in UploadOutcomes :
          /\ kv' = StoreAfterUpload(kv, config.download_filename, result)
          /\ kvWriters' = WritersAfterUpload(kvWriters, config.download_filename, result)
          /\ networkUsed' = TRUE
          /\ kv_upload_success' = (result = "ok")
          /\ IF result = "ok"
             THEN pc' = "webhook" /\ UNCHANGED <<runVars, browserVars>>
             ELSE Raise("KvError")
    /\ UNCHANGED <<loginVars, pipeVars, webhook_sent, posts>>
UploadToKvStore ==
    /\ pc = "upload"
    /\ uploads' = uploads + 1
    /\ steps' = Append(steps, "store")
    /\ \E result \in UploadOutcomes :
          /\ kv' = StoreAfterUpload(kv, config.download_filename, result)
          /\ kvWriters' = WritersAfterUpload(kvWriters, config.download_filename, result)
          /\ networkUsed' = TRUE
          /\ kv_upload_success' = (result = "ok")
    /\ pc' = "webhook"
    /\ UNCHANGED <<runVars, browserVars, loginVars, pipeVars, webhook_sent, posts>>

StatusCodes == {199, 200, 299, 300, 500}

\* 200 <= response.status < 300
Is2xx(status) == 200 <= status /\ status < 300

\* post_file_to_webhook as it would be without its try/except
PostWebhookUncaught ==
    /\ pc = "webhook"
    /\ IF TruthyUrl(config.n8n_webhook_url)
       THEN /\ posts' = posts + 1
            /\ steps' = Append(steps, "notify")
            /\ networkUsed' = TRUE
            /\ \/ /\ webhook_sent' = FALSE
                  /\ Raise("ClientError")
               \/ /\ \E status \in StatusCodes : webhook_sent' = Is2xx(status)
                  /\ pc' = "close"
                  /\ UNCHANGED <<runVars, browserVars>>
       ELSE /\ webhook_sent' = FALSE
            /\ pc' = "close"
            /\ UNCHANGED <<posts, networkUsed, steps, runVars, browserVars>>
    /\ UNCHANGED <<kvVars, loginVars, pipeVars, kv_upload_success, uploads>>
\* if config['n8n_webhook_url']: post_file_to_webhook(...)
PostWebhook ==
    /\ pc = "webhook"
    /\ IF TruthyUrl(config.n8n_webhook_url)
       THEN /\ posts' = posts + 1
            /\ steps' = Append(steps, "notify")
            /\ networkUsed' = TRUE
            /\ \/ webhook_sent' = FALSE     \* an exception in the try block
               \/ \E status \in StatusCodes : webhook_sent' = Is2xx(status)
       ELSE /\ webhook_sent' = FALSE
            /\ UNCHANGED <<posts, networkUsed, steps>>
    /\ pc' = "close"
    /\ UNCHANGED <<runVars, browserVars, kvVars, loginVars, pipeVars,
                   kv_upload_success, uploads>>

\* browser.close() in a try: if it raises the session lives on until the
\* `async with` block is left
CloseBrowser ==
    /\ pc = "close"
    /\ browser' \in {"closed", browser}
    /\ pc' = "push"
    /\ UNCHANGED <<runVars, networkUsed, kvVars, loginVars, pipeVars, deliveryVars, steps>>

\* push_data(output) and return, which leaves `async with async_playwright()`
PushSuccess ==
    /\ pc = "push"
    /\ dataset' = Append(dataset, SuccessRecord(config, tmpFile, webhook_sent))
    /\ outcome' = "returned"
    /\ steps' = Append(steps, "record")
    /\ browser' = "closed"
    /\ pc' = "done"
    /\ UNCHANGED <<config, cascade, attempt, e, firstError, failures, sleeps>>
    /\ UNCHANGED <<networkUsed, kvVars, loginVars, pipeVars, deliveryVars>>

(***************************************************************************)
(* The except handler of the retry loop                                    *)
(***************************************************************************)
\* The handler as it would be if it kept the first error it saw
ExceptHandlerFirstError ==
    /\ pc = "except"
    /\ IF ShouldRetry(attempt, config.max_retries)
       THEN /\ pc' = "sleep"
            /\ UNCHANGED <<dataset, outcome>>
       ELSE /\ dataset' = Append(dataset, FailedRecord(firstError))
            /\ outcome' = "raised"
            /\ pc' = "done"
    /\ UNCHANGED <<config, cascade, attempt, e, firstError, failures, sleeps>>
    /\ UNCHANGED <<browserVars, networkUsed, kvVars, loginVars, pipeVars, deliveryVars, steps>>
ExceptHandler ==
    /\ pc = "except"
    /\ IF ShouldRetry(attempt, config.max_retries)
       THEN /\ pc' = "sleep"
            /\ UNCHANGED <<dataset, outcome>>
       ELSE /\ dataset' = Append(dataset, FailedRecord(e))
            /\ outcome' = "raised"     \* `raise`: e leaves main_logic
            /\ pc' = "done"
    /\ UNCHANGED <<config, cascade, attempt, e, firstError, failures, sleeps>>
    /\ UNCHANGED <<browserVars, networkUsed, kvVars, loginVars, pipeVars, deliveryVars, steps>>

\* await asyncio.sleep(wait), then the next iteration
Sleep ==
    /\ pc = "sleep"
    /\ sleeps' = Append(sleeps, BackoffWait(attempt))
    /\ pc' = "loop"
    /\ UNCHANGED <<config, cascade, attempt, e, firstError, failures, dataset, outcome>>
    /\ UNCHANGED <<browserVars, networkUsed, kvVars, loginVars, pipeVars, deliveryVars, steps>>

Next ==
    \/ Validate
    \/ LoopNext
    \/ LaunchBrowser
    \/ LoadCookies
    \/ NewPage
    \/ Probe
    \/ LoginNav
    \/ LoginFillUser
    \/ LoginFillPass
    \/ LoginSubmit
    \/ LoginSettle
    \/ LoginReturn
    \/ SaveCookies
    \/ ProcessUrlsNext
    \/ DirectFetch
    \/ ClickTrigger
    \/ ClickExhausted
    \/ ScanLinks
    \/ ProcessUrlsReturn
    \/ UploadToKvStore
    \/ PostWebhook
    \/ CloseBrowser
    \/ PushSuccess
    \/ ExceptHandler
    \/ Sleep

\* Runs of main_logic
Spec == Init /\ [][Next]_vars

\* Runs whose config carries a csv_download_url
SpecDirect == InitDirect /\ [][Next]_vars

\* Runs of main_logic in which every call returns or raises: a step that can
\* be taken is eventually taken
SpecFair == Init /\ [][Next]_vars /\ WF_vars(Next)

\* Calls of try_fill / try_click, over every selector list and page
InitCascade ==
    /\ config = MakeConfig(CHOOSE input \in DirectInputs :
                               input.max_retries = Absent /\ input.start_urls = <<>>)
    /\ cascade \in {CascadeCall(fn, selectors) :
                        fn \in {"try_fill", "try_click"}, selectors \in SelectorLists}
    /\ InitLocals

NextCascade ==
    \/ CascadeQuery
    \/ CascadeAct

SpecCascade == InitCascade /\ [][NextCascade]_vars


(***************************************************************************)
(* Properties                                                              *)
(***************************************************************************)
CredentialsGiven == config.username /= "" /\ config.password /= ""

\* Positions inside the try block of an attempt
InAttempt ==
    pc \in {"launch", "load_cookies", "new_page", "probe", "login_nav", "login_user",
            "login_pass", "login_submit", "login_settle", "login_return",
            "save_cookies", "process_urls", "direct", "click", "scan",
            "pipeline_return", "upload", "webhook", "close", "push"}

\* C1: every run that has ended pushed exactly one record to the dataset,
\* and no run ever pushes more than one.
C1_ExactlyOneRecord ==
    /\ Len(dataset) <= 1
    /\ pc = "done" => Len(dataset) = 1

\* C2: the retry loop sleeps 5*k after failed attempt k when another
\* attempt follows, so that attempt k is entered after k-1 sleeps; a run in
\* which every attempt failed made exactly max_retries attempts and did not
\* sleep after the last one.
C2_RetryBackoff ==
    /\ \A k \in 1 .. Len(sleeps) : sleeps[k] = 5 * k
    /\ (InAttempt \/ pc \in {"except", "sleep"}) => Len(sleeps) = attempt - 1
    /\ (pc = "loop" /\ attempt > 0) => Len(sleeps) = attempt /\ failures = attempt
    /\ outcome = "raised" =>
          /\ attempt = config.max_retries
          /\ failures = config.max_retries
          /\ Len(sleeps) = config.max_retries - 1
    /\ (pc = "done" /\ attempt > 0 /\ failures = attempt) =>
          outcome = "raised" /\ attempt = config.max_retries

\* C2 witness: three attempts failed, with sleeps of 5 and 10 between them
C2_Witness ==
    /\ outcome = "raised"
    /\ config.max_retries = 3
    /\ failures = 3
    /\ sleeps = <<5, 10>>

\* C3: a run whose attempts are exhausted pushed one Failed record carrying
\* the error of the attempt that failed last and raised that error; a Failed
\* record with an attempt's error exists only once the last attempt failed.
C3_FailureRecord ==
    /\ outcome = "raised" =>
          /\ pc = "done"
          /\ e /= None
          /\ dataset = <<[status |-> "Failed", error |-> e]>>
          /\ attempt = config.max_retries
    /\ pc = "except" => e /= None /\ failures = attempt
    /\ \A i \in 1 .. Len(dataset) :
          (dataset[i].status = "Failed" /\ CredentialsGiven) =>
              outcome = "raised" /\ failures = config.max_retries
    /\ outcome = "running" => dataset = <<>>

\* C3 witness: the last attempt failed for another reason than the first
C3_Witness ==
    /\ outcome = "raised"
    /\ failures >= 2
    /\ firstError /= e
    /\ dataset = <<[status |-> "Failed", error |-> e]>>

\* C4: with an empty username or password the run starts no attempt, touches
\* neither browser, store nor network, does not sleep, and ends by returning
\* after pushing the one missing-credentials record.
C4_MissingCredentials ==
    (config.username = "" \/ config.password = "") =>
        /\ pc \in {"validate", "done"}
        /\ attempt = 0 /\ failures = 0
        /\ browser = "none"
        /\ ~networkUsed
        /\ kvWriters = {} /\ uploads = 0 /\ posts = 0
        /\ sleeps = <<>>
        /\ outcome /= "raised"
        /\ pc = "validate" => dataset = <<>>
        /\ pc = "done" =>
              /\ outcome = "returned"
              /\ dataset = <<[status |-> "Failed", error |-> "Missing credentials"]>>

\* C4 witness: the password alone is missing and the run has ended
C4_Witness ==
    /\ config.username = "user"
    /\ config.password = ""
    /\ pc = "done"
    /\ Len(dataset) = 1


\* The run ended on the success path
Succeeded == pc = "done" /\ outcome = "returned" /\ out_path /= None

\* C5: the record of a successful run whose storage write failed and whose
\* webhook POST succeeded has status Success, a storage flag (cookies_saved)
\* equal to false and a notification flag (webhook_sent) equal to true.
C5_RecordReportsSinks ==
    (Succeeded /\ ~kv_upload_success /\ webhook_sent) =>
        /\ dataset[1].status = "Success"
        /\ dataset[1].cookies_saved = FALSE
        /\ dataset[1].webhook_sent = TRUE

\* C6: once an attempt holds an artifact it goes through both sinks and
\* pushes a Success record, whatever the sinks answer: it never reaches the
\* except handler, a sleep or another attempt, the POST is attempted exactly
\* when a webhook URL is configured, also after a failed storage write, and
\* the run returns without raising.
C6_DeliveryNeverEscalates ==
    out_path /= None =>
        /\ pc \in {"pipeline_return", "upload", "webhook", "close", "push", "done"}
        /\ outcome /= "raised"
        /\ failures = attempt - 1 /\ Len(sleeps) = attempt - 1
        /\ pc \in {"close", "push", "done"} =>
              /\ uploads = 1
              /\ posts = IF config.n8n_webhook_url /= <<>> THEN 1 ELSE 0
        /\ (webhook_sent \/ posts > 0) => config.n8n_webhook_url /= <<>>
        /\ pc = "done" =>
              /\ outcome = "returned"
              /\ Len(dataset) = 1
              /\ dataset[1].status = "Success"
              /\ dataset[1].webhook_sent = webhook_sent

\* C6 witness: both sinks failed, the POST was attempted after the failed
\* storage write, and the run ended with a Success record
C6_Witness ==
    /\ Succeeded
    /\ ~kv_upload_success
    /\ ~webhook_sent
    /\ posts = 1
    /\ dataset[1].status = "Success"

StrategyRank(strategy) ==
    CASE strategy = "direct" -> 1
      [] strategy = "click" -> 2
      [] OTHER -> 3

\* (page, strategy) of a comes before that of b
Before(a, b) ==
    \/ a.page < b.page
    \/ a.page = b.page /\ StrategyRank(a.strategy) < StrategyRank(b.strategy)

\* C7: process_urls navigates to the pages in configured order and evaluates
\* the strategies of a page in the order direct, click, scan; a strategy that
\* succeeded is the last one evaluated and its page the last one visited, and
\* its artifact is what the pipeline returns.
C7_FirstSuccessWins ==
    /\ visited = [i \in 1 .. pageIdx |-> config.start_urls[i]]
    /\ \A i, j \in 1 .. Len(tried) : i < j => Before(tried[i], tried[j])
    /\ \A i \in 1 .. Len(tried) :
          /\ tried[i].page <= pageIdx
          /\ tried[i].ok =>
                /\ i = Len(tried)
                /\ tried[i].page = pageIdx
                /\ tried[i].strategy = artifact
                /\ out_path /= None
                /\ pc = "pipeline_return"
    /\ (out_path /= None /\ pc = "pipeline_return") =>
          /\ tried /= <<>>
          /\ tried[Len(tried)].ok

\* C7 witness: two pages, direct fetch failed and the click download
\* succeeded on the first, and the pipeline returns with the second unvisited
C7_Witness ==
    /\ pc = "pipeline_return"
    /\ out_path /= None
    /\ Len(config.start_urls) = 2
    /\ visited = <<1>>
    /\ tried = <<[page |-> 1, strategy |-> "direct", ok |-> FALSE],
                 [page |-> 1, strategy |-> "click", ok |-> TRUE]>>

Strategies == {"direct", "click", "scan"}

\* The strategy was evaluated on the page, and failed
TriedAndFailed(page, strategy) ==
    \E i \in 1 .. Len(tried) :
        tried[i].page = page /\ tried[i].strategy = strategy /\ ~tried[i].ok

\* C8 as claimed: the pipeline reports no artifact only after every strategy
\* has been tried, and has failed, on every candidate page.
C8_EveryStrategyEveryPage ==
    (pc = "pipeline_return" /\ out_path = None) =>
        \A page \in 1 .. Len(config.start_urls), strategy \in Strategies :
            TriedAndFailed(page, strategy)

\* C8 amended: no failure leaves the pipeline as an exception, and the
\* pipeline reports no artifact only after it navigated to every candidate
\* page and, on every page whose navigation succeeded, the click download and
\* the link scan were tried and failed, as was the direct fetch when the
\* configured resource URL ends in .csv (it is not evaluated otherwise).
C8_FailuresStayInPipeline ==
    /\ pc = "except" => pageIdx = 0 /\ visited = <<>> /\ tried = <<>>
    /\ (pc = "pipeline_return" /\ out_path = None) =>
          /\ pageIdx = Len(config.start_urls)
          /\ Len(visited) = Len(config.start_urls)
          /\ \A i \in 1 .. Len(tried) : tried[i].page \in navOk
          /\ \A page \in navOk :
                /\ TriedAndFailed(page, "click")
                /\ TriedAndFailed(page, "scan")
                /\ TriedAndFailed(page, "direct") <=>
                      (Len(config.csv_download_url) > 0
                          /\ config.csv_download_url[Len(config.csv_download_url)]
                                \in {".csv", ".CSV", ".Csv"})

\* C8 witness: navigation failed on the first of two pages, every strategy
\* failed on the second, and the pipeline reports no artifact
C8_Witness ==
    /\ pc = "pipeline_return"
    /\ out_path = None
    /\ Len(config.start_urls) = 2
    /\ navOk = {2}
    /\ TriedAndFailed(2, "direct")
    /\ TriedAndFailed(2, "scan")

\* C9: an artifact the pipeline returns has more than MinPayload bytes, and
\* so has the file a Success record reports.
C9_ArtifactAboveThreshold ==
    /\ out_path /= None => tmpFile.exists /\ tmpFile.size > 50
    /\ \A i \in 1 .. Len(dataset) :
          dataset[i].status = "Success" => dataset[i].file_size > 50

\* C10: the link scan leaves an anchor whose GET returned 200 with at most 50
\* bytes without writing or returning anything and goes on with the next
\* anchor; when it returns an artifact, that artifact is the payload of the
\* first anchor, in document order, whose GET returned 200 with more than 50
\* bytes.
C10_LinkScanThreshold ==
    /\ (lastLink.kind = "ok200" /\ lastLink.size <= 50) =>
          /\ pc = "scan"
          /\ out_path = None
          /\ ~tmpFile.exists
          /\ links[Len(links)] = FALSE
    /\ (pc = "pipeline_return" /\ out_path /= None /\ artifact = "scan") =>
          /\ lastLink.kind = "ok200"
          /\ lastLink.size > 50
          /\ tmpFile = [exists |-> TRUE, size |-> lastLink.size]
          /\ links /= <<>>
          /\ \A i \in 1 .. Len(links) : links[i] <=> i = Len(links)

\* C10 witness: the first anchor returned exactly 50 bytes and the scan is
\* about to go on with the next anchor
C10_Witness ==
    /\ pc = "scan"
    /\ Len(links) = 1
    /\ lastLink = [kind |-> "ok200", size |-> 50]
    /\ out_path = None

\* Selectors of the list under cascade whose outcome is "ok"
Matching == {j \in 1 .. Len(cascade.selectors) : cascade.selectors[j] = "ok"}

\* The selectors 1 .. n, in list order
UpTo(n) == [j \in 1 .. n |-> j]

\* The selectors among 1 .. n on which an element was found, in list order
RECURSIVE FoundUpTo(_)
FoundUpTo(n) ==
    IF n = 0 THEN <<>>
    ELSE IF cascade.selectors[n] \in {"action_raises", "ok"}
         THEN Append(FoundUpTo(n - 1), n)
         ELSE FoundUpTo(n - 1)

\* C11: a cascade that returned True acted last, and successfully, through
\* the first selector of the list whose element exists and whose action does
\* not raise; it queried exactly the selectors up to that one, in list order,
\* and acted on none after it.  When exactly one selector of the list
\* matches, the cascade returns True and that selector is the selected one.
C11_FirstMatchSelected ==
    /\ cascade.result = "True" =>
          /\ cascade.at = "done"
          /\ Matching /= {}
          /\ cascade.i = CHOOSE j \in Matching : \A k \in Matching : j <= k
          /\ cascade.queried = UpTo(cascade.i)
          /\ cascade.acted = FoundUpTo(cascade.i)
          /\ cascade.i = TryCascadeFrom(cascade.selectors, 1)
    /\ (cascade.at = "done" /\ Cardinality(Matching) = 1) =>
          /\ cascade.result = "True"
          /\ cascade.i \in Matching

\* C11 witness: the element of the first selector exists but its action
\* raised, and the cascade returned True through the second
C11_Witness ==
    /\ cascade.at = "done"
    /\ cascade.result = "True"
    /\ cascade.selectors = <<"action_raises", "ok">>
    /\ cascade.queried = <<1, 2>>
    /\ cascade.acted = <<1, 2>>

\* C12: a cascade over a list none of whose selectors matches returns False,
\* whatever the length of the list; a cascade returns False only after it
\* queried every selector of the list, none of which matches, so that no
\* action it performed succeeded; no exception leaves the cascade.
C12_NoMatchReturnsFalse ==
    /\ cascade.result /= "raised"
    /\ (cascade.at = "done" /\ Matching = {}) => cascade.result = "False"
    /\ cascade.result = "False" =>
          /\ cascade.at = "done"
          /\ Matching = {}
          /\ cascade.queried = UpTo(Len(cascade.selectors))
          /\ cascade.acted = FoundUpTo(Len(cascade.selectors))
          /\ \A k \in 1 .. Len(cascade.acted) :
                cascade.selectors[cascade.acted[k]] = "action_raises"
          /\ TryCascadeFrom(cascade.selectors, 1) = 0

\* C12 witness: the query of the first selector and the action of the second
\* raised, and the cascade returned False
C12_Witness ==
    /\ cascade.at = "done"
    /\ cascade.result = "False"
    /\ cascade.selectors = <<"query_raises", "action_raises">>
    /\ cascade.queried = <<1, 2>>
    /\ cascade.acted = <<2>>

\* C13 as claimed: the probe returns true whenever a marker is on the page
\* and false when none is.
C13_MarkerPresentMeansTrue ==
    probed.ran =>
        /\ probed.present /= {} => logged_in
        /\ probed.present = {} => ~logged_in

\* C13 amended: the probe returns true exactly when none of its marker
\* queries raised and at least one marker is on the page, whether or not the
\* session is authenticated; it returns false when no marker is there or a
\* query raised, and the attempt goes on without an exception either way.
C13_ProbeHeuristic ==
    probed.ran =>
        /\ logged_in <=> (~probed.raised /\ probed.present /= {})
        /\ pc = IF logged_in THEN "process_urls" ELSE "login_nav"
        /\ e = None
        /\ failures = attempt - 1

\* C13 witness: one marker is on the page of a session that is not
\* authenticated, and the probe returned true
C13_Witness ==
    /\ probed.ran
    /\ probed.present = {"Export"}
    /\ ~probed.authenticated
    /\ logged_in
    /\ pc = "process_urls"

\* C14: the download the click strategy saves for a trigger is the one that
\* trigger's own click started, never one started by an earlier trigger.
C14_DownloadOwnedByTrigger ==
    /\ download_info /= "earlier"
    /\ (pc = "pipeline_return" /\ out_path /= None /\ artifact = "click") =>
          download_info = "own"

\* C15: every key of the store has one writer: only the Session Manager
\* writes the cookie key, and the Delivery Stage writes only the artifact key
\* and the pointer key, neither of which is the cookie key.
C15_SingleWriterPerKey ==
    \A w \in kvWriters :
        /\ w[1] = COOKIES_KEY => w[2] = "session_manager"
        /\ w[2] = "delivery" => w[1] \in {config.download_filename, KV_FILENAME_KEY}
        /\ \A v \in kvWriters : v[1] = w[1] => v[2] = w[2]

\* C16: a step of an attempt writes the stored SessionState (the value under
\* the cookie key) only if it is the session persist step, taken after the
\* probe was negative and the login reported success, with save_cookies on;
\* every other step leaves it as it was.
C16_SessionWrittenOnlyAfterLogin ==
    [][(\/ kv'[COOKIES_KEY] /= kv[COOKIES_KEY]
        \/ \E w \in kvWriters' \ kvWriters : w[1] = COOKIES_KEY)
          => /\ pc = "save_cookies"
             /\ ~logged_in
             /\ loginState.result = "ok"
             /\ config.save_cookies]_vars

\* C17: perform_login returns False only when page.goto of the login URL
\* raised, in which case no later step ran; once navigation succeeded the
\* flow goes through both fills, the submit and the settle wait whatever
\* each of them did, and returns True.
C17_LoginFailsOnlyOnNavigation ==
    /\ pc \in {"login_user", "login_pass", "login_submit", "login_settle"} =>
          loginState.result = None
    /\ pc = "login_return" =>
          /\ loginState.result \in {"ok", "failed"}
          /\ loginState.result = "failed" =>
                /\ loginState.user = None /\ loginState.pass = None
                /\ loginState.submit = None /\ loginState.settle = None
          /\ loginState.result = "ok" =>
                /\ loginState.user \in {"cascade", "fallback", "failed"}
                /\ loginState.pass \in {"cascade", "fallback", "failed"}
                /\ loginState.submit \in {"cascade", "fallback", "failed"}
                /\ loginState.settle \in {"idle", "timeout"}
    /\ (pc = "except" /\ e = "Login failed") =>
          loginState.result = "failed" /\ steps[Len(steps)] = "login"

\* C17 witness: both fills and the submit failed, cascade and fallback, the
\* settle wait timed out, and perform_login returned True
C17_Witness ==
    /\ pc = "login_return"
    /\ loginState = [result |-> "ok", user |-> "failed", pass |-> "failed",
                     submit |-> "failed", settle |-> "timeout"]

\* The attempt went through the step
Did(step) == \E i \in 1 .. Len(steps) : steps[i] = step

\* Place of a step in the order of an attempt
StepRank(step) ==
    CASE step = "launch" -> 1
      [] step = "restore" -> 2
      [] step = "probe" -> 3
      [] step = "login" -> 4
      [] step = "persist" -> 5
      [] step = "acquire" -> 6
      [] step = "store" -> 7
      [] step = "notify" -> 8
      [] OTHER -> 9

WebhookConfigured == config.n8n_webhook_url /= <<>>

\* C18: the steps of an attempt come in the order launch, session restore,
\* probe, login, session persist, acquisition, storage write, webhook POST,
\* success record, each at most once; the login runs exactly when the probe
\* result is negative, acquisition starts only after the probe and, when the
\* probe was negative, after the login reported success, no sink is written
\* before an artifact is acquired, and the success record is pushed after the
\* storage write and the POST to the configured webhook were attempted.
C18_StepOrder ==
    /\ \A i, j \in 1 .. Len(steps) : i < j => StepRank(steps[i]) < StepRank(steps[j])
    /\ Did("restore") => Did("launch")
    /\ Did("probe") => Did("restore")
    /\ Did("login") => Did("probe") /\ ~logged_in
    /\ (Did("probe") /\ ~logged_in /\ ~Did("login")) => pc = "login_nav"
    /\ Did("persist") =>
          Did("login") /\ loginState.result = "ok" /\ config.save_cookies
    /\ Did("acquire") =>
          /\ Did("probe")
          /\ Did("login") <=> ~logged_in
          /\ Did("login") => loginState.result = "ok"
          /\ Did("persist") <=> (Did("login") /\ config.save_cookies)
    /\ (pc \in {"direct", "click", "scan", "pipeline_return"}) => Did("acquire")
    /\ Did("store") => Did("acquire") /\ out_path /= None /\ tmpFile.exists
    /\ Did("notify") => Did("store") /\ WebhookConfigured
    /\ (uploads > 0 \/ posts > 0 \/ \E w \in kvWriters : w[2] = "delivery") =>
          Did("store") /\ out_path /= None
    /\ Did("record") =>
          /\ Did("store") /\ uploads = 1
          /\ Did("notify") <=> WebhookConfigured
          /\ posts = IF WebhookConfigured THEN 1 ELSE 0
    /\ (\E i \in 1 .. Len(dataset) : dataset[i].status = "Success") => Did("record")

\* C18 witness: an attempt that went through every step
C18_Witness ==
    /\ pc = "done"
    /\ steps = <<"launch", "restore", "probe", "login", "persist", "acquire",
                 "store", "notify", "record">>

\* C19: a browser session is alive only inside the attempt that launched
\* it: none is alive when an attempt starts, in the except handler, during
\* the backoff sleep, or once the run has ended by return or by raise, and an
\* attempt past its launch works on the session it launched itself.
C19_BrowserPerAttempt ==
    /\ pc \in {"validate", "loop", "launch", "except", "sleep", "done"} =>
          browser /= "open"
    /\ pc = "launch" => browser = "none" /\ steps = <<>>
    /\ pc \in {"load_cookies", "new_page", "probe", "login_nav", "login_user",
                "login_pass", "login_submit", "login_settle", "login_return",
                "save_cookies", "process_urls", "direct", "click", "scan",
                "pipeline_return", "upload", "webhook", "close"} =>
          browser = "open" /\ steps[1] = "launch"
    /\ pc = "push" => browser \in {"open", "closed"} /\ steps[1] = "launch"
    /\ (pc \in {"except", "sleep", "done"} /\ Did("launch")) => browser = "closed"

\* C19 witness: the second attempt failed after its browser was launched,
\* and the session is gone during the backoff sleep
C19_Witness ==
    /\ pc = "sleep"
    /\ attempt = 2
    /\ Did("launch")
    /\ e = "Unable to find or download CSV"
    /\ browser = "closed"

\* The run ended as the run controller says it does
EndedWithRecord ==
    \/ /\ outcome = "returned"
       /\ Len(dataset) = 1
       /\ \/ dataset[1].status = "Success"
          \/ dataset[1] = [status |-> "Failed", error |-> "Missing credentials"]
    \/ /\ outcome = "raised"
       /\ Len(dataset) = 1
       /\ dataset[1].status = "Failed"

\* Every run eventually ends
RunEnds == <>(pc = "done")

\* C20: every run eventually ends; a run that ended returned after a
\* Success or a missing-credentials record or raised after a Failed record;
\* at most max_retries attempts are started, and none once a record is
\* pushed.
C20_RunTerminates ==
    /\ RunEnds
    /\ [](pc = "done" => EndedWithRecord)
    /\ [](attempt = 0 \/ attempt <= config.max_retries)
    /\ [][dataset /= <<>> => attempt' = attempt]_vars

C22_NoAttemptWithoutRetries ==
    (CredentialsGiven /\ config.max_retries <= 0) =>
        /\ pc \in {"validate", "loop", "done"}
        /\ attempt = 0 /\ failures = 0
        /\ steps = <<>>
        /\ browser = "none"
        /\ ~networkUsed
        /\ sleeps = <<>>
        /\ dataset = <<>>
        /\ outcome /= "raised"
        /\ pc = "done" <=> outcome = "returned"

\* C22 witness: a run with max_retries = -1 has returned, with no record
C22_Witness ==
    /\ CredentialsGiven
    /\ config.max_retries = -1
    /\ pc = "done"
    /\ outcome = "returned"
    /\ dataset = <<>>

\* C23: the config of a run of main_logic holds no resource URL, so no
\* direct fetch is ever evaluated: the first strategy evaluated on a page is
\* the click download, and no artifact comes from a direct GET.
C23_DirectFetchNeverRuns ==
    /\ config.csv_download_url = <<>>
    /\ ~EndsWithCsv(config.csv_download_url)
    /\ \A i \in 1 .. Len(tried) :
          /\ tried[i].strategy /= "direct"
          /\ (i = 1 \/ tried[i - 1].page /= tried[i].page) => tried[i].strategy = "click"
    /\ artifact /= "direct"
    /\ pc = "click" => \A i \in 1 .. Len(tried) : tried[i].page /= pageIdx

\* C23 witness: on the second page the click download is the first strategy
\* evaluated, as it was on the first, and it delivers the artifact
C23_Witness ==
    /\ pc = "pipeline_return"
    /\ tried = <<[page |-> 1, strategy |-> "click", ok |-> FALSE],
                 [page |-> 1, strategy |-> "scan", ok |-> FALSE],
                 [page |-> 2, strategy |-> "click", ok |-> TRUE]>>

====
